---- MODULE Spec2Model ----
(***************************************************************************)
(* revproxyry: a configuration-driven reverse proxy.                       *)
(*                                                                         *)
(* The model follows src/main.go (setupRouter, the handler chain,          *)
(* setupServers, run), src/config/config.go (Validate) and src/sigterm.go. *)
(* Strings whose characters matter (paths, prefixes, targets) are          *)
(* sequences of one-character strings; strings that are only compared for  *)
(* equality or emptiness are TLA+ strings.                                 *)
(***************************************************************************)
EXTENDS Integers, Sequences, FiniteSets, TLC

VARIABLES
    cfg,              \* config.Config, immutable after Load
    pc,               \* position of run() in the main goroutine
    exitCode,         \* value returned by run(); -1 while running
    httpd,            \* *http.Server of the plaintext listener, or NoServer
    httpsd,           \* *http.Server of the encrypted listener, or NoServer
    httpTask,         \* goroutine of main.go:451-462
    httpsTask,        \* goroutine of main.go:466-477
    supTask,          \* goroutine of main.go:483-495
    sigTask,          \* goroutine of sigterm.go:16-19
    sigChan,          \* signals buffered in the channel c of sigterm.go:14
    receivedSIGTERM,  \* sigterm.go:10
    failures,         \* main.go:447
    err,              \* the variable err of run(), written by both listener tasks
    returned,         \* what each listener's ListenAndServe call returned, "none" before
    bound,            \* addresses the process has bound
    req,              \* the request being observed, NoReq when there is none
    resp              \* what the handler chain did with it

vars == <<cfg, pc, exitCode, httpd, httpsd, httpTask, httpsTask, supTask, sigTask,
          sigChan, receivedSIGTERM, failures, err, returned, bound, req, resp>>

(***************************************************************************)
(* Bounds of the model.                                                    *)
(***************************************************************************)
MaxPathLen == 5
MaxReqPathLen == 4
MaxAuthIDs == 2
MaxRoutes == 2

(***************************************************************************)
(* Strings as sequences of characters.                                     *)
(***************************************************************************)
PathChars == {"/", ".", "a"}

RECURSIVE StringsUpTo(_, _)
StringsUpTo(chars, n) ==
    IF n = 0 THEN {<<>>}
    ELSE LET shorter == StringsUpTo(chars, n - 1)
         IN  shorter \cup {Append(s, c) : s \in {t \in shorter : Len(t) = n - 1}, c \in chars}

\* strings.HasPrefix
HasPrefix(s, p) == Len(p) <= Len(s) /\ SubSeq(s, 1, Len(p)) = p

\* strings.HasSuffix
HasSuffix(s, p) == Len(p) <= Len(s) /\ SubSeq(s, Len(s) - Len(p) + 1, Len(s)) = p

\* strings.TrimPrefix
TrimPrefix(s, p) == IF HasPrefix(s, p) THEN SubSeq(s, Len(p) + 1, Len(s)) ELSE s

\* strings.Split(s, "/"): the elements between separators, empty ones included
RECURSIVE SplitSlash(_)
SplitSlash(s) ==
    IF \A i \in 1..Len(s) : s[i] # "/" THEN <<s>>
    ELSE LET k == CHOOSE i \in 1..Len(s) : s[i] = "/" /\ \A j \in 1..(i - 1) : s[j] # "/"
         IN  <<SubSeq(s, 1, k - 1)>> \o SplitSlash(SubSeq(s, k + 1, Len(s)))

\* strings.Split(s, ":")
RECURSIVE SplitColon(_)
SplitColon(s) ==
    IF \A i \in 1..Len(s) : s[i] # ":" THEN <<s>>
    ELSE LET k == CHOOSE i \in 1..Len(s) : s[i] = ":" /\ \A j \in 1..(i - 1) : s[j] # ":"
         IN  <<SubSeq(s, 1, k - 1)>> \o SplitColon(SubSeq(s, k + 1, Len(s)))

\* strings.Join(elems, "/")
RECURSIVE JoinSlash(_)
JoinSlash(elems) ==
    IF elems = <<>> THEN <<>>
    ELSE IF Len(elems) = 1 THEN elems[1]
    ELSE elems[1] \o <<"/">> \o JoinSlash(Tail(elems))

DotDot == <<".", ".">>
Dot == <<".">>

\* The element loop of path.Clean: out is the stack of elements kept so far.
RECURSIVE CleanElems(_, _, _)
CleanElems(elems, out, rooted) ==
    IF elems = <<>> THEN out
    ELSE LET e == Head(elems)
             rest == Tail(elems)
         IN  IF e = <<>> \/ e = Dot THEN CleanElems(rest, out, rooted)
             ELSE IF e = DotDot THEN
                  IF out # <<>> /\ out[Len(out)] # DotDot
                  THEN CleanElems(rest, SubSeq(out, 1, Len(out) - 1), rooted)
                  ELSE IF rooted THEN CleanElems(rest, out, rooted)
                  ELSE CleanElems(rest, Append(out, e), rooted)
             ELSE CleanElems(rest, Append(out, e), rooted)

\* path.Clean
Clean(p) ==
    IF p = <<>> THEN Dot
    ELSE LET rooted == p[1] = "/"
             out == CleanElems(SplitSlash(p), <<>>, rooted)
         IN  IF rooted THEN <<"/">> \o JoinSlash(out)
             ELSE IF out = <<>> THEN Dot ELSE JoinSlash(out)

\* path.Join of two elements: empty elements are ignored, the result is cleaned
Join(a, b) ==
    IF a = <<>> /\ b = <<>> THEN <<>>
    ELSE IF a = <<>> THEN Clean(b)
    ELSE IF b = <<>> THEN Clean(a)
    ELSE Clean(a \o <<"/">> \o b)

\* os.PathSeparator of the build
Separator == "/"

\* filepath.FromSlash
FromSlash(s) == [i \in DOMAIN s |-> IF s[i] = "/" THEN Separator ELSE s[i]]

\* containsDotDot of net/http, used by http.ServeFile on r.URL.Path
ContainsDotDot(p) == \E i \in 1..Len(SplitSlash(p)) : SplitSlash(p)[i] = DotDot

(***************************************************************************)
(* Password hashes.  A hash string is kept as the pieces its text has:     *)
(* the scheme prefix, whether the text after the prefix is well formed     *)
(* (has the salt separator, a parsable cost), the salt and the digest.     *)
(* A digest records the algorithm, password and salt it was computed from. *)
(***************************************************************************)
Apr1Prefix == "$apr1$"
BcryptPrefix == "$2a$"

apr1Md5(pw, salt) == [alg |-> "apr1", pw |-> pw, salt |-> salt]
bcryptDigest(pw, salt) == [alg |-> "bcrypt", pw |-> pw, salt |-> salt]
NoDigest == [alg |-> "none", pw |-> "", salt |-> ""]

EmptyHash == [prefix |-> "", wellformed |-> FALSE, salt |-> "", digest |-> NoDigest]
Apr1Hash(pw, salt) ==
    [prefix |-> Apr1Prefix, wellformed |-> TRUE, salt |-> salt, digest |-> apr1Md5(pw, salt)]
BcryptHash(pw, salt) ==
    [prefix |-> BcryptPrefix, wellformed |-> TRUE, salt |-> salt, digest |-> bcryptDigest(pw, salt)]
MalformedApr1Hash == [prefix |-> Apr1Prefix, wellformed |-> FALSE, salt |-> "", digest |-> NoDigest]

\* htbasicauth.AcceptMd5: (nil, nil) for a hash without the apr1 prefix, an error
\* for an apr1 hash without the salt separator, else the parsed (salt, hashed)
AcceptMd5(hash) ==
    IF hash.prefix # Apr1Prefix THEN [md5 |-> FALSE, err |-> FALSE, salt |-> "", hashed |-> NoDigest]
    ELSE IF ~hash.wellformed THEN [md5 |-> FALSE, err |-> TRUE, salt |-> "", hashed |-> NoDigest]
    ELSE [md5 |-> TRUE, err |-> FALSE, salt |-> hash.salt, hashed |-> hash.digest]

\* md5Password.MatchesPassword
MatchesPassword(md5, pw) == apr1Md5(pw, md5.salt) = md5.hashed

\* bcrypt.CompareHashAndPassword: TRUE iff it returns nil
CompareHashAndPassword(hash, pw) ==
    /\ hash.prefix = BcryptPrefix
    /\ hash.wellformed
    /\ bcryptDigest(pw, hash.salt) = hash.digest

(***************************************************************************)
(* Configuration (config.Config, config.Route, config.Auth).               *)
(***************************************************************************)
AuthTable ==
    [everybody |-> [Username |-> "",  PasswordHash |-> EmptyHash],
     md5a      |-> [Username |-> "a", PasswordHash |-> Apr1Hash("p", "s1")],
     bcra      |-> [Username |-> "a", PasswordHash |-> BcryptHash("q", "s2")],
     bcrb      |-> [Username |-> "b", PasswordHash |-> BcryptHash("p", "s3")],
     badb      |-> [Username |-> "b", PasswordHash |-> MalformedApr1Hash]]

AllAuthIDs == DOMAIN AuthTable

\* the auths mapping of a configuration that declares the identifiers ids
AuthsOf(ids) == [id \in ids |-> AuthTable[id]]

Route(prefix, target, authIDs) == [Prefix |-> prefix, Target |-> target, AuthIDs |-> authIDs]

Config(auths, domain, routes, key, cert, ledir, httpAddr, httpsAddr) ==
    [Auths |-> auths, Domain |-> domain, Routes |-> routes,
     SslKeyPath |-> key, SslCertPath |-> cert, LetsencryptDir |-> ledir,
     HttpAddress |-> httpAddr, HttpsAddress |-> httpsAddr]

\* the first error of the loop over routes and their auth IDs, config.go:47-57
DanglingAuth(c) ==
    \E i \in 1..Len(c.Routes) : \E j \in 1..Len(c.Routes[i].AuthIDs) :
        c.Routes[i].AuthIDs[j] \notin DOMAIN c.Auths

useSSL(c) == (c.SslCertPath # "" /\ c.SslKeyPath = "") \/ c.LetsencryptDir # ""

\* Validate without the check that cert and key paths come together
ValidateNoPairCheck(c) ==
    IF DanglingAuth(c) THEN "auth could not be found"
    ELSE IF c.LetsencryptDir # "" /\ c.SslCertPath # ""
         THEN "both letsencrypt_dir and ssl_cert_path were specified"
    ELSE IF c.LetsencryptDir # "" /\ c.Domain = ""
         THEN "letsencrypt_dir was specified in cfg, but no domain"
    ELSE IF useSSL(c) /\ c.HttpsAddress = <<>>
         THEN "cfg needs to use SSL, but https_address was not specified"
    ELSE IF c.HttpAddress = ""
         THEN "http_address was not specified in cfg"
    ELSE ""

\* config.Validate: "" when the configuration is accepted, else the error
Validate(c) ==
    IF DanglingAuth(c) THEN "auth could not be found"
    ELSE IF (c.SslCertPath # "" /\ c.SslKeyPath = "") \/ (c.SslCertPath = "" /\ c.SslKeyPath # "")
         THEN "either both SSL cert and key are empty, or none"
    ELSE IF c.LetsencryptDir # "" /\ c.SslCertPath # ""
         THEN "both letsencrypt_dir and ssl_cert_path were specified"
    ELSE IF c.LetsencryptDir # "" /\ c.Domain = ""
         THEN "letsencrypt_dir was specified in cfg, but no domain"
    ELSE IF useSSL(c) /\ c.HttpsAddress = <<>>
         THEN "cfg needs to use SSL, but https_address was not specified"
    ELSE IF c.HttpAddress = ""
         THEN "http_address was not specified in cfg"
    ELSE ""

(***************************************************************************)
(* url.ParseRequestURI on a route target.                                  *)
(***************************************************************************)
Letters == {"h", "u", "x", "d", "a"}
SchemeChars == Letters \cup {"."}

\* getScheme of net/url: the index of the ':' that ends a scheme, 0 when the
\* text has no scheme, -1 for "missing protocol scheme"
SchemeEnd(s) ==
    IF s = <<>> THEN 0
    ELSE IF s[1] = ":" THEN -1
    ELSE IF s[1] \notin Letters THEN 0
    ELSE IF \E i \in 2..Len(s) : s[i] = ":" /\ \A j \in 1..(i - 1) : s[j] \in SchemeChars
         THEN CHOOSE i \in 2..Len(s) : s[i] = ":" /\ \A j \in 1..(i - 1) : s[j] \in SchemeChars
         ELSE 0

NilURL == [ok |-> FALSE, Scheme |-> <<>>, Host |-> <<>>, Path |-> <<>>]

\* the split of "//host/path" into authority and path
AuthorityEnd(rest) ==
    IF \E i \in 3..Len(rest) : rest[i] = "/"
    THEN CHOOSE i \in 3..Len(rest) : rest[i] = "/" /\ \A j \in 3..(i - 1) : rest[j] # "/"
    ELSE Len(rest) + 1

ParseRequestURI(s) ==
    IF s = <<>> THEN NilURL
    ELSE IF s = <<"*">> THEN [ok |-> TRUE, Scheme |-> <<>>, Host |-> <<>>, Path |-> <<"*">>]
    ELSE LET k == SchemeEnd(s)
         IN  IF k = -1 THEN NilURL
             ELSE LET scheme == IF k = 0 THEN <<>> ELSE SubSeq(s, 1, k - 1)
                      rest == IF k = 0 THEN s ELSE SubSeq(s, k + 1, Len(s))
                  IN  IF ~HasPrefix(rest, <<"/">>)
                      THEN IF scheme # <<>>
                           THEN [ok |-> TRUE, Scheme |-> scheme, Host |-> <<>>, Path |-> <<>>]
                           ELSE NilURL
                      ELSE IF scheme # <<>> /\ HasPrefix(rest, <<"/", "/">>)
                           THEN LET e == AuthorityEnd(rest)
                                IN  [ok |-> TRUE, Scheme |-> scheme,
                                     Host |-> SubSeq(rest, 3, e - 1),
                                     Path |-> SubSeq(rest, e, Len(rest))]
                           ELSE [ok |-> TRUE, Scheme |-> scheme, Host |-> <<>>, Path |-> rest]

(***************************************************************************)
(* Requests, responses and log records.                                    *)
(***************************************************************************)
\* an inbound request; Path is r.URL.Path, which is also the request URI sent
Request(method, host, path, hasAuth, username, password) ==
    [Method |-> method, Host |-> host, Path |-> path,
     HasAuth |-> hasAuth, Username |-> username, Password |-> password]

\* what the handler chain did: who wrote the response, its status and headers
\* (writtenHeader is the code of the dispatch target's WriteHeader call, 0 when
\* it wrote the body without one and the status sent is the implicit 200),
\* whether a dispatch target ran and on what, the hash comparisons made, and the
\* records written to the two loggers; for a TLS handshake, the host name a
\* certificate was retrieved for, or the error that ended the handshake
NoResp ==
    [by |-> "none", status |-> 0, writtenHeader |-> 0, wwwAuth |-> FALSE, location |-> <<>>,
     listener |-> "none", route |-> 0, dispatched |-> FALSE, targetPath |-> <<>>,
     opened |-> <<>>, forwarded |-> <<>>, hashOps |-> <<>>,
     logOut |-> <<>>, logErr |-> <<>>, certFor |-> "", tlsErr |-> ""]

\* newMessage, main.go:99-104
newMessage(r) ==
    [URL |-> r.Path, Prefix |-> <<>>, Target |-> <<>>, Error |-> "",
     StatusCode |-> 0, RedirectionURL |-> <<>>]

(***************************************************************************)
(* Dispatch targets.                                                       *)
(***************************************************************************)
\* http.ServeFile lists a directory whose URL path ends with a separator; it
\* writes the listing without a WriteHeader call
DirListing(upath, env) ==
    env.exists /\ ~ContainsDotDot(upath) /\ env.isDir /\ HasSuffix(upath, <<"/">>)

\* the status of fileServer.ServeHTTP, main.go:60-69: 404 when os.Open finds
\* nothing; http.ServeFile refuses a URL path with a ".." element, redirects
\* the URL of a directory that lacks the final separator, and serves the rest
fileStatus(upath, env) ==
    IF ~env.exists THEN 404
    ELSE IF ContainsDotDot(upath) THEN 400
    ELSE IF env.isDir /\ ~HasSuffix(upath, <<"/">>) THEN 301
    ELSE 200

\* fileServer.ServeHTTP without the path.Clean of main.go:53
fileServerNoClean(root, r, env) ==
    LET upath == IF ~HasPrefix(r.Path, <<"/">>) THEN <<"/">> \o r.Path ELSE r.Path
        name == Join(root, FromSlash(upath))
    IN  [NoResp EXCEPT !.by = "fileServer", !.dispatched = TRUE, !.targetPath = upath,
                       !.opened = name,
                       !.status = fileStatus(upath, env),
                       !.writtenHeader = IF DirListing(upath, env) THEN 0
                                         ELSE fileStatus(upath, env),
                       !.location = IF fileStatus(upath, env) = 301
                                    THEN SplitSlash(upath)[Len(SplitSlash(upath))] \o <<"/">>
                                    ELSE <<>>]

\* fileServer.ServeHTTP, main.go:46-70.  env.exists is whether os.Open finds
\* the file; http.ServeFile refuses a URL path with a ".." element
fileServer(root, r, env) ==
    LET upath == IF ~HasPrefix(r.Path, <<"/">>) THEN <<"/">> \o r.Path ELSE r.Path
        cleaned == Clean(upath)
        name == Join(root, FromSlash(cleaned))
    IN  [NoResp EXCEPT !.by = "fileServer", !.dispatched = TRUE, !.targetPath = upath,
                       !.opened = name,
                       !.status = fileStatus(upath, env),
                       !.writtenHeader = IF DirListing(upath, env) THEN 0
                                         ELSE fileStatus(upath, env),
                       !.location = IF fileStatus(upath, env) = 301
                                    THEN SplitSlash(upath)[Len(SplitSlash(upath))] \o <<"/">>
                                    ELSE <<>>]

\* singleJoiningSlash of net/http/httputil
singleJoiningSlash(a, b) ==
    LET aslash == HasSuffix(a, <<"/">>)
        bslash == HasPrefix(b, <<"/">>)
    IN  IF aslash /\ bslash THEN a \o Tail(b)
        ELSE IF ~aslash /\ ~bslash THEN a \o <<"/">> \o b
        ELSE a \o b

\* httputil.NewSingleHostReverseProxy(parsedURL).ServeHTTP, main.go:222:
\* env.upstream is the status the upstream answers with
reverseProxy(target, r, env) ==
    [NoResp EXCEPT !.by = "reverseProxy", !.dispatched = TRUE, !.targetPath = r.Path,
                   !.forwarded = singleJoiningSlash(target.Path, r.Path),
                   !.status = env.upstream, !.writtenHeader = env.upstream]

(***************************************************************************)
(* The decorators.                                                         *)
(***************************************************************************)
\* loggingHandler.ServeHTTP whose record lacks the route's prefix and target
loggingHandlerNoRoute(route, r, inner) ==
    [inner EXCEPT !.logOut = Append(@, [newMessage([r EXCEPT !.Path = inner.targetPath])
                                           EXCEPT !.StatusCode = inner.writtenHeader])]

\* loggingHandler.ServeHTTP, main.go:116-134: inner is what the wrapped
\* handler did with r.  The record is made after the handler returned, from
\* the request as the handler left it (fileServer assigns r.URL.Path,
\* main.go:51) and from the code loggingResponseWriter.WriteHeader caught
\* (main.go:106-114)
loggingHandler(route, r, inner) ==
    [inner EXCEPT !.logOut = Append(@, [newMessage([r EXCEPT !.Path = inner.targetPath])
                                           EXCEPT !.Prefix = route.Prefix,
                                                  !.Target = route.Target,
                                                  !.StatusCode = inner.writtenHeader])]

HashOp(kind, i) == [op |-> kind, cred |-> i]

\* the credential loop with the apr1 branch falling through to bcrypt
RECURSIVE AuthenticateFallThrough(_, _, _, _)
AuthenticateFallThrough(auths, i, username, passw) ==
    IF i > Len(auths) THEN [ok |-> FALSE, ops |-> <<>>]
    ELSE LET a == auths[i]
             rest == AuthenticateFallThrough(auths, i + 1, username, passw)
             m == AcceptMd5(a.PasswordHash)
         IN  IF username # a.Username THEN rest
             ELSE IF m.err THEN [rest EXCEPT !.ops = <<HashOp("parse-error", i)>> \o @]
             ELSE IF m.md5 /\ MatchesPassword(m, passw)
                  THEN [ok |-> TRUE, ops |-> <<HashOp("md5", i)>>]
             ELSE IF CompareHashAndPassword(a.PasswordHash, passw)
                  THEN [ok |-> TRUE,
                        ops |-> (IF m.md5 THEN <<HashOp("md5", i)>> ELSE <<>>)
                                \o <<HashOp("bcrypt", i)>>]
             ELSE [rest EXCEPT !.ops = (IF m.md5 THEN <<HashOp("md5", i)>> ELSE <<>>)
                                       \o <<HashOp("bcrypt", i)>> \o @]

\* the credential loop of authHandler.ServeHTTP, main.go:691-717, from
\* credential i on: whether a credential accepted, and the comparisons made
RECURSIVE Authenticate(_, _, _, _)
Authenticate(auths, i, username, passw) ==
    IF i > Len(auths) THEN [ok |-> FALSE, ops |-> <<>>]
    ELSE LET a == auths[i]
             rest == Authenticate(auths, i + 1, username, passw)
             m == AcceptMd5(a.PasswordHash)
         IN  IF username # a.Username THEN rest
             ELSE IF m.err THEN [rest EXCEPT !.ops = <<HashOp("parse-error", i)>> \o @]
             ELSE IF m.md5
                  THEN IF MatchesPassword(m, passw)
                       THEN [ok |-> TRUE, ops |-> <<HashOp("md5", i)>>]
                       ELSE [rest EXCEPT !.ops = <<HashOp("md5", i)>> \o @]
             ELSE IF CompareHashAndPassword(a.PasswordHash, passw)
                  THEN [ok |-> TRUE, ops |-> <<HashOp("bcrypt", i)>>]
             ELSE [rest EXCEPT !.ops = <<HashOp("bcrypt", i)>> \o @]

Unauthorized(r, error, ops) ==
    [NoResp EXCEPT !.by = "authHandler", !.status = 401, !.wwwAuth = TRUE, !.hashOps = ops,
                   !.logErr = <<[newMessage(r) EXCEPT !.Error = error, !.StatusCode = 401]>>]

\* authHandler.ServeHTTP that passes a rejected request on to the wrapped handler
authHandlerPassRejected(auths, r, inner) ==
    IF ~r.HasAuth THEN Unauthorized(r, "no auth", <<>>)
    ELSE [inner EXCEPT !.hashOps = Authenticate(auths, 1, r.Username, r.Password).ops]

\* authHandler.ServeHTTP, main.go:142-194 with the credential check of
\* main.go:691-717; inner is what the wrapped handler does with r when called
authHandler(auths, r, inner) ==
    IF ~r.HasAuth THEN Unauthorized(r, "no auth", <<>>)
    ELSE LET res == Authenticate(auths, 1, r.Username, r.Password)
         IN  IF ~res.ok THEN Unauthorized(r, "auth not accepted", res.ops)
             ELSE [inner EXCEPT !.hashOps = res.ops]

(***************************************************************************)
(* setupRouter: the route table.                                           *)
(***************************************************************************)
\* the switch of main.go:213-226 on the route's target
TargetKind(route) ==
    IF HasPrefix(route.Target, <<"/">>) THEN "file"
    ELSE IF ParseRequestURI(route.Target).ok THEN "proxy"
    ELSE "error"

\* the credentials a route's auth IDs resolve to, main.go:779-787
RouteAuths(c, route) == [j \in 1..Len(route.AuthIDs) |-> c.Auths[route.AuthIDs[j]]]

\* needsAuth with every listed credential counted, empty user names included
needsAuthAnyListed(c, route) == Len(route.AuthIDs) > 0

\* needsAuth of main.go:780-787 (auths.All of main.go:245 is its negation)
needsAuth(c, route) ==
    \E j \in 1..Len(route.AuthIDs) : c.Auths[route.AuthIDs[j]].Username # ""

MuxEntry(pattern, kind, route) == [pattern |-> pattern, kind |-> kind, route |-> route]

Registered(mux, pattern) == \E k \in 1..Len(mux) : mux[k].pattern = pattern

\* the loop of main.go:207-257 from route i on; mux.Handle panics on an empty
\* pattern and on a pattern registered before
RECURSIVE RouterLoop(_, _, _, _)
RouterLoop(c, i, mux, handledRoot) ==
    IF i > Len(c.Routes)
    THEN [err |-> "", panicked |-> FALSE,
          mux |-> IF ~handledRoot THEN Append(mux, MuxEntry(<<"/">>, "default", 0)) ELSE mux]
    ELSE LET route == c.Routes[i]
         IN  IF TargetKind(route) = "error"
             THEN [err |-> "does not know how to handle the Route", panicked |-> FALSE, mux |-> <<>>]
             ELSE IF route.Prefix = <<>> \/ Registered(mux, route.Prefix)
             THEN [err |-> "", panicked |-> TRUE, mux |-> <<>>]
             ELSE RouterLoop(c, i + 1, Append(mux, MuxEntry(route.Prefix, "route", i)),
                             handledRoot \/ route.Prefix = <<"/">>)

\* setupRouter that registers the default handler at "/" whatever the routes
\* are, as main.go:799 did before handledRoot
setupRouterDefaultAlways(c) ==
    LET r == RouterLoop(c, 1, <<>>, TRUE)
    IN  IF r.err # "" \/ r.panicked THEN r
        ELSE IF Registered(r.mux, <<"/">>) THEN [err |-> "", panicked |-> TRUE, mux |-> <<>>]
        ELSE [r EXCEPT !.mux = Append(@, MuxEntry(<<"/">>, "default", 0))]

\* setupRouter, main.go:201-280
setupRouter(c) == RouterLoop(c, 1, <<>>, FALSE)

\* setupRedirectionRouter, main.go:282-313: a mux with the redirect responder at "/"
setupRedirectionRouter == <<MuxEntry(<<"/">>, "redirect", 0)>>

(***************************************************************************)
(* http.ServeMux.                                                          *)
(***************************************************************************)
\* cleanPath of net/http
cleanPath(p) ==
    IF p = <<>> THEN <<"/">>
    ELSE LET p1 == IF p[1] # "/" THEN <<"/">> \o p ELSE p
             np == Clean(p1)
         IN  IF p1[Len(p1)] = "/" /\ np # <<"/">> THEN np \o <<"/">> ELSE np

\* ServeMux.match: the entry for an exact match, else the longest pattern that
\* ends in "/" and is a prefix of the path; 0 when there is none
muxMatch(mux, path) ==
    IF \E k \in 1..Len(mux) : mux[k].pattern = path
    THEN CHOOSE k \in 1..Len(mux) : mux[k].pattern = path
    ELSE LET cands == {k \in 1..Len(mux) : /\ HasSuffix(mux[k].pattern, <<"/">>)
                                           /\ HasPrefix(path, mux[k].pattern)}
         IN  IF cands = {} THEN 0
             ELSE CHOOSE k \in cands : \A l \in cands : Len(mux[l].pattern) <= Len(mux[k].pattern)

\* ServeMux.shouldRedirect: path is not registered and path + "/" is
shouldRedirect(mux, path) ==
    /\ ~Registered(mux, path)
    /\ path # <<>>
    /\ Registered(mux, path \o <<"/">>)
    /\ path[Len(path)] # "/"

HttpsScheme == "https://"

\* the redirect responder, main.go:284-310
redirectHandler(c, r) ==
    LET prefix == IF HasPrefix(c.HttpsAddress, <<":">>)
                  THEN <<HttpsScheme>> \o SplitColon(r.Host)[1] \o c.HttpsAddress
                  ELSE <<HttpsScheme>> \o c.HttpsAddress
        newURL == prefix \o r.Path
    IN  [NoResp EXCEPT !.by = "redirect", !.status = 301, !.location = newURL,
                       !.logOut = <<[newMessage(r) EXCEPT !.RedirectionURL = newURL,
                                                          !.StatusCode = 301]>>]

\* the default handler without its log record
defaultHandlerNoLog(r) == [NoResp EXCEPT !.by = "default", !.status = 404]

\* the default handler, main.go:260-276
defaultHandler(r) ==
    [NoResp EXCEPT !.by = "default", !.status = 404,
                   !.logErr = <<[newMessage(r) EXCEPT !.Error = "not found",
                                                      !.StatusCode = 404]>>]

\* the dispatch target of route i wrapped in the logging decorator, main.go:213-233
loggedTarget(c, i, r, env) ==
    LET route == c.Routes[i]
        target == IF TargetKind(route) = "file" THEN fileServer(route.Target, r, env)
                  ELSE reverseProxy(ParseRequestURI(route.Target), r, env)
    IN  loggingHandler(route, r, target)

\* the handler built for route i, main.go:228-250
routeHandler(c, i, r, env) ==
    LET route == c.Routes[i]
    IN  IF needsAuth(c, route)
        THEN authHandler(RouteAuths(c, route), r, loggedTarget(c, i, r, env))
        ELSE loggedTarget(c, i, r, env)

\* http.StripPrefix(route.Prefix, handler), main.go:252
StripPrefix(c, i, r, env) ==
    LET p == TrimPrefix(r.Path, c.Routes[i].Prefix)
    IN  IF Len(p) < Len(r.Path)
        THEN [routeHandler(c, i, [r EXCEPT !.Path = p], env) EXCEPT !.route = i]
        ELSE [NoResp EXCEPT !.by = "StripPrefix", !.status = 404, !.route = i]

\* the handler of a mux entry
entryHandler(c, e, r, env) ==
    IF e.kind = "route" THEN StripPrefix(c, e.route, r, env)
    ELSE IF e.kind = "redirect" THEN redirectHandler(c, r)
    ELSE defaultHandler(r)

muxRedirect(location) == [NoResp EXCEPT !.by = "mux", !.status = 301, !.location = location]

\* ServeMux.ServeHTTP: CONNECT requests are not canonicalised, other requests
\* with a path that is not clean are redirected to the clean path
ServeMux(c, mux, r, env) ==
    LET path == IF r.Method = "CONNECT" THEN r.Path ELSE cleanPath(r.Path)
    IN  IF shouldRedirect(mux, path) THEN muxRedirect(path \o <<"/">>)
        ELSE IF path # r.Path THEN muxRedirect(path)
        ELSE IF muxMatch(mux, r.Path) = 0 THEN [NoResp EXCEPT !.by = "mux", !.status = 404]
        ELSE entryHandler(c, mux[muxMatch(mux, r.Path)], r, env)

(***************************************************************************)
(* setupServers: the two http.Server values.                               *)
(***************************************************************************)
NoServer == [Handler |-> "none", Addr |-> <<>>, TLSConfig |-> "nil", state |-> "nil"]
Server(handler, addr) == [Handler |-> handler, Addr |-> addr, TLSConfig |-> "nil", state |-> "new"]

\* setupServers with the route table on the plaintext listener in every mode
setupServersRouterOnPlain(c) ==
    LET router == setupRouter(c)
    IN  IF router.panicked
        THEN [err |-> "", panicked |-> TRUE, httpd |-> NoServer, httpsd |-> NoServer]
        ELSE IF router.err # ""
        THEN [err |-> "failed to set up the router", panicked |-> FALSE,
              httpd |-> NoServer, httpsd |-> NoServer]
        ELSE [err |-> "", panicked |-> FALSE,
              httpd |-> Server("router", c.HttpAddress),
              httpsd |-> IF c.SslCertPath = "" /\ c.LetsencryptDir = "" THEN NoServer
                         ELSE Server("router", c.HttpsAddress)]

\* setupServers, main.go:315-391
setupServers(c) ==
    LET router == setupRouter(c)
    IN  IF router.panicked
        THEN [err |-> "", panicked |-> TRUE, httpd |-> NoServer, httpsd |-> NoServer]
        ELSE IF router.err # ""
        THEN [err |-> "failed to set up the router", panicked |-> FALSE,
              httpd |-> NoServer, httpsd |-> NoServer]
        ELSE IF c.SslCertPath = "" /\ c.LetsencryptDir = ""
        THEN [err |-> "", panicked |-> FALSE,
              httpd |-> Server("router", c.HttpAddress), httpsd |-> NoServer]
        ELSE IF c.SslCertPath # ""
        THEN [err |-> "", panicked |-> FALSE,
              httpd |-> Server("redirect", c.HttpAddress),
              httpsd |-> Server("router", c.HttpsAddress)]
        ELSE IF c.LetsencryptDir # ""
        THEN IF c.SslCertPath # ""
             THEN [err |-> "expected empty SSL cert path", panicked |-> FALSE,
                   httpd |-> NoServer, httpsd |-> NoServer]
             ELSE IF c.SslKeyPath # ""
             THEN [err |-> "expected empty SSL key path", panicked |-> FALSE,
                   httpd |-> NoServer, httpsd |-> NoServer]
             ELSE [err |-> "", panicked |-> FALSE,
                   httpd |-> Server("acme", c.HttpAddress),
                   httpsd |-> [Server("router", c.HttpsAddress)
                                  EXCEPT !.TLSConfig = "GetCertificate"]]
        ELSE [err |-> "unhandled execution path for revproxy", panicked |-> FALSE,
              httpd |-> NoServer, httpsd |-> NoServer]

\* the path prefix of an ACME HTTP-01 challenge; "~" stands for the segment
\* .well-known/acme-challenge
AcmePrefix == <<"/", "~", "/">>

\* autocert.Manager.HTTPHandler(rediRouter), main.go:356: challenge requests
\* are answered by the manager, every other request by the fallback
acmeHandler(c, r, env) ==
    IF HasPrefix(r.Path, AcmePrefix)
    THEN [NoResp EXCEPT !.by = "acme", !.status = IF env.exists THEN 200 ELSE 404]
    ELSE ServeMux(c, setupRedirectionRouter, r, env)

\* http.Server.Handler.ServeHTTP of a listener
serverHandler(c, srv, r, env) ==
    IF srv.Handler = "router" THEN ServeMux(c, setupRouter(c).mux, r, env)
    ELSE IF srv.Handler = "redirect" THEN ServeMux(c, setupRedirectionRouter, r, env)
    ELSE acmeHandler(c, r, env)

\* hostPolicy that allows every host
hostPolicyAcceptAll(c, host) == ""

\* hostPolicy, main.go:342-348: nil for the configured domain, else an error
hostPolicy(c, host) ==
    IF host = c.Domain THEN "" ELSE "acme/autocert: only the domain is allowed"

\* autocert.Manager.GetCertificate, main.go:359: a handshake without a server
\* name is refused, else the host policy decides whether a certificate is
\* retrieved (from the cache directory, or issued) for the name
GetCertificate(c, name) ==
    IF name = ""
    THEN [NoResp EXCEPT !.by = "autocert", !.tlsErr = "acme/autocert: missing server name"]
    ELSE IF hostPolicy(c, name) # ""
    THEN [NoResp EXCEPT !.by = "autocert", !.tlsErr = hostPolicy(c, name)]
    ELSE [NoResp EXCEPT !.by = "autocert", !.certFor = name]

\* the certificate of a handshake on a listener: TLSConfig.GetCertificate when
\* set (main.go:359), else the files given to ListenAndServeTLS (main.go:471)
serverCertificate(c, srv, name) ==
    IF srv.TLSConfig = "GetCertificate" THEN GetCertificate(c, name)
    ELSE [NoResp EXCEPT !.by = "certfile"]

(***************************************************************************)
(* Inputs of the model.                                                    *)
(***************************************************************************)
DirTarget == <<"/", "d">>
UrlTarget == <<"h", ":", "/", "/", "u", "/">>
StarTarget == <<"*">>
BadTarget == <<"x">>

HttpAddr == ":80"
HttpsPort == <<":", "4">>

\* what the environment answers: whether the file (or the challenge token)
\* exists, and the status of the upstream
Envs == {[exists |-> TRUE, isDir |-> FALSE, upstream |-> 200],
         [exists |-> FALSE, isDir |-> FALSE, upstream |-> 502]}

\* the path names a directory
DirEnv == [exists |-> TRUE, isDir |-> TRUE, upstream |-> 200]

NoReq == Request("", <<>>, <<>>, FALSE, "", "")

Usernames == {"", "a", "b", "c"}
Passwords == {"", "p", "q"}

\* the Authorization headers a request can carry: none, or Basic user:password
Credentials ==
    {[HasAuth |-> FALSE, Username |-> "", Password |-> ""]}
    \cup {[HasAuth |-> TRUE, Username |-> u, Password |-> p] : u \in Usernames, p \in Passwords}

RECURSIVE SeqsUpTo(_, _)
SeqsUpTo(S, n) ==
    IF n = 0 THEN {<<>>}
    ELSE LET shorter == SeqsUpTo(S, n - 1)
         IN  shorter \cup {Append(s, x) : s \in {t \in shorter : Len(t) = n - 1}, x \in S}

PlainConfig(routes) ==
    Config(AuthsOf(AllAuthIDs), "", routes, "", "", "", HttpAddr, <<>>)

\* configurations of one guarded route: every list of auth IDs up to MaxAuthIDs
AuthConfigs ==
    {PlainConfig(<<Route(<<"/", "a", "/">>, t, ids)>>) :
        t \in {DirTarget, UrlTarget}, ids \in SeqsUpTo(AllAuthIDs, MaxAuthIDs)}

AuthRequests ==
    {Request("GET", <<"h">>, p, c.HasAuth, c.Username, c.Password) :
        p \in {<<"/", "a", "/", "a">>, <<"/", "a">>}, c \in Credentials}

Prefixes == {<<"/">>, <<"/", "a">>, <<"/", "a", "/">>}

\* configurations of public routes: every list of up to MaxRoutes routes whose
\* route table setupRouter builds
MuxConfigs ==
    {c \in {PlainConfig(rs) :
                rs \in SeqsUpTo({Route(p, t, <<>>) : p \in Prefixes, t \in {DirTarget, UrlTarget}},
                                MaxRoutes)} :
        ~setupRouter(c).panicked /\ setupRouter(c).err = ""}

MuxRequests ==
    {Request(m, <<"h">>, p, FALSE, "", "") :
        m \in {"GET", "CONNECT"}, p \in StringsUpTo(PathChars, MaxReqPathLen)}

Roots == {<<"/">>, DirTarget, <<"/", "d", "/">>, <<"/", "d", "/", "a">>, <<"/", "d", "/", ".", ".">>}

FileConfigs == {PlainConfig(<<Route(<<"/">>, root, <<>>)>>) : root \in Roots}

FilePaths == StringsUpTo(PathChars, MaxPathLen)

\* configurations of run(): every combination of empty and set TLS fields and
\* addresses, over a few route lists (guarded, dangling auth ID, bad targets)
RunRoutes ==
    {<<Route(<<"/", "a", "/">>, DirTarget, <<"md5a">>)>>,
     <<Route(<<"/", "a", "/">>, UrlTarget, <<"nobody">>)>>,
     <<Route(<<"/">>, BadTarget, <<>>)>>,
     <<Route(<<"/">>, StarTarget, <<>>)>>}

RunConfigs ==
    {Config(AuthsOf({"everybody", "md5a"}), domain, routes, key, cert, ledir, httpAddr, httpsAddr) :
        domain \in {"", "example.com"}, routes \in RunRoutes,
        key \in {"", "/key"}, cert \in {"", "/cert"}, ledir \in {"", "/le"},
        httpAddr \in {"", HttpAddr}, httpsAddr \in {<<>>, HttpsPort}}

RunRequests ==
    {Request("GET", <<"h">>, <<"/", "a", "/", "a">>, TRUE, "a", "p"),
     Request("GET", <<"h">>, <<"/", "a", "/", "/", "a">>, TRUE, "a", "p"),
     Request("GET", <<"h", ":", "8">>, <<"/", "a", "/", "a">>, FALSE, "", ""),
     Request("GET", <<"h">>, <<"/", "~", "/", "a">>, FALSE, "", "")}

HttpsHostPort == <<"e", ":", "4">>

\* configurations Validate accepts with a TLS mode: static and automatic
\* certificates, the HTTPS address a bare port, a host with a port, or empty
TLSConfigs ==
    {c \in {Config(AuthsOf({"md5a"}), "example.com",
                    <<Route(<<"/", "a", "/">>, DirTarget, <<"md5a">>)>>,
                    f.key, f.cert, f.ledir, HttpAddr, httpsAddr) :
                f \in {[key |-> "/key", cert |-> "/cert", ledir |-> ""],
                       [key |-> "", cert |-> "", ledir |-> "/le"]},
                httpsAddr \in {<<>>, HttpsPort, HttpsHostPort}} :
        Validate(c) = ""}

\* the forms of the Host header: name, IPv4 address and bracketed IPv6
\* address, each with and without a port
Hosts ==
    {<<"h">>, <<"h", ":", "8">>,
     <<"1", ".", "2">>, <<"1", ".", "2", ":", "8">>,
     <<"[", ":", ":", "1", "]">>, <<"[", ":", ":", "1", "]", ":", "8">>}

RedirectRequests ==
    {Request("GET", h, p, FALSE, "", "") :
        h \in Hosts,
        p \in {<<"/">>, <<"/", "a", "/", "a">>, <<"/", "a", "/", "/", "a">>, <<"/", "~", "/", "a">>}}

\* the server names of a ClientHello: the configured domain, names around it,
\* another domain, and none
ServerNames == {"example.com", "Example.com", "www.example.com", "example.com.evil.org",
                "evil.org", ""}

\* configurations of one route, public or guarded, to a directory or an upstream
LogConfigs ==
    {PlainConfig(<<Route(p, t, ids)>>) :
        p \in {<<"/">>, <<"/", "a", "/">>}, t \in {DirTarget, UrlTarget},
        ids \in {<<>>, <<"md5a">>}}

LogRequests ==
    {Request("GET", <<"h">>, p, c.HasAuth, c.Username, c.Password) :
        p \in {<<"/", "a", "/">>, <<"/", "a", "/", "a">>, <<"/", "a", "/", "a", "/">>},
        c \in {[HasAuth |-> FALSE, Username |-> "", Password |-> ""],
               [HasAuth |-> TRUE, Username |-> "a", Password |-> "p"],
               [HasAuth |-> TRUE, Username |-> "a", Password |-> "q"]}}

\* one configuration of each mode that run() starts the listeners for
LiveConfigs ==
    {Config(AuthsOf({"md5a"}), f.domain,
            <<Route(<<"/", "a", "/">>, DirTarget, <<"md5a">>)>>,
            f.key, f.cert, f.ledir, HttpAddr, f.httpsAddr) :
        f \in {[domain |-> "", key |-> "", cert |-> "", ledir |-> "", httpsAddr |-> <<>>],
               [domain |-> "", key |-> "/key", cert |-> "/cert", ledir |-> "",
                httpsAddr |-> HttpsPort],
               [domain |-> "example.com", key |-> "", cert |-> "", ledir |-> "/le",
                httpsAddr |-> HttpsPort]}}

(***************************************************************************)
(* run(): the main goroutine, main.go:393-502.                             *)
(***************************************************************************)
NotReturned == [http |-> "none", https |-> "none"]

Running == pc \notin {"exited", "panicked", "killed"}

Starting(c) ==
    /\ cfg = c
    /\ pc = "start"
    /\ exitCode = -1
    /\ httpd = NoServer
    /\ httpsd = NoServer
    /\ httpTask = "none"
    /\ httpsTask = "none"
    /\ supTask = "none"
    /\ sigTask = "none"
    /\ sigChan = 0
    /\ receivedSIGTERM = 0
    /\ failures = 0
    /\ err = "nil"
    /\ returned = NotReturned
    /\ bound = {}
    /\ req = NoReq
    /\ resp = NoResp

\* the state of the process once run() is in wg.Wait with both listeners serving
Serving(c) ==
    /\ cfg = c
    /\ pc = "waiting"
    /\ exitCode = -1
    /\ httpd = [setupServers(c).httpd EXCEPT !.state = "listening"]
    /\ httpsd = IF setupServers(c).httpsd = NoServer THEN NoServer
                ELSE [setupServers(c).httpsd EXCEPT !.state = "listening"]
    /\ httpTask = "serving"
    /\ httpsTask = IF setupServers(c).httpsd = NoServer THEN "none" ELSE "serving"
    /\ supTask = "polling"
    /\ sigTask = "waiting"
    /\ sigChan = 0
    /\ receivedSIGTERM = 0
    /\ failures = 0
    /\ err = "nil"
    /\ returned = NotReturned
    /\ bound = IF setupServers(c).httpsd = NoServer THEN {"http"} ELSE {"http", "https"}
    /\ req = NoReq
    /\ resp = NoResp

\* config.Load, main.go:429-433 (Load validates, config.go:108)
RunLoad ==
    /\ pc = "start"
    /\ IF Validate(cfg) # ""
       THEN pc' = "exited" /\ exitCode' = 1
       ELSE pc' = "loaded" /\ exitCode' = exitCode
    /\ UNCHANGED <<cfg, httpd, httpsd, httpTask, httpsTask, supTask, sigTask,
                   sigChan, receivedSIGTERM, failures, err, returned, bound, req, resp>>

\* config.Validate, main.go:435-439
RunValidate ==
    /\ pc = "loaded"
    /\ IF Validate(cfg) # ""
       THEN pc' = "exited" /\ exitCode' = 1
       ELSE pc' = "validated" /\ exitCode' = exitCode
    /\ UNCHANGED <<cfg, httpd, httpsd, httpTask, httpsTask, supTask, sigTask,
                   sigChan, receivedSIGTERM, failures, err, returned, bound, req, resp>>

\* setupServers, main.go:441-445; a panic of mux.Handle ends the process
RunSetupServers ==
    /\ pc = "validated"
    /\ LET s == setupServers(cfg)
       IN  IF s.panicked
           THEN pc' = "panicked" /\ exitCode' = 2 /\ UNCHANGED <<httpd, httpsd>>
           ELSE IF s.err # ""
           THEN pc' = "exited" /\ exitCode' = 1 /\ UNCHANGED <<httpd, httpsd>>
           ELSE pc' = "servers" /\ exitCode' = exitCode /\ httpd' = s.httpd /\ httpsd' = s.httpsd
    /\ UNCHANGED <<cfg, httpTask, httpsTask, supTask, sigTask,
                   sigChan, receivedSIGTERM, failures, err, returned, bound, req, resp>>

\* go func() of main.go:450-462
RunGoHttp ==
    /\ pc = "servers"
    /\ pc' = "goHttps"
    /\ httpTask' = "spawned"
    /\ UNCHANGED <<cfg, exitCode, httpd, httpsd, httpsTask, supTask, sigTask,
                   sigChan, receivedSIGTERM, failures, err, returned, bound, req, resp>>

\* if httpsd != nil { go func() }, main.go:464-478
RunGoHttps ==
    /\ pc = "goHttps"
    /\ pc' = "register"
    /\ httpsTask' = IF httpsd # NoServer THEN "spawned" ELSE "none"
    /\ UNCHANGED <<cfg, exitCode, httpd, httpsd, httpTask, supTask, sigTask,
                   sigChan, receivedSIGTERM, failures, err, returned, bound, req, resp>>

\* RegisterSIGTERMHandler, main.go:480 and sigterm.go:13-20
RunRegisterSIGTERMHandler ==
    /\ pc = "register"
    /\ pc' = "goSupervisor"
    /\ sigTask' = "waiting"
    /\ UNCHANGED <<cfg, exitCode, httpd, httpsd, httpTask, httpsTask, supTask,
                   sigChan, receivedSIGTERM, failures, err, returned, bound, req, resp>>

\* go func() of main.go:482-495
RunGoSupervisor ==
    /\ pc = "goSupervisor"
    /\ pc' = "waiting"
    /\ supTask' = "polling"
    /\ UNCHANGED <<cfg, exitCode, httpd, httpsd, httpTask, httpsTask, sigTask,
                   sigChan, receivedSIGTERM, failures, err, returned, bound, req, resp>>

\* run() that waits for the listener tasks only
RunWaitListenersOnly ==
    /\ pc = "waiting"
    /\ httpTask = "done"
    /\ httpsTask \in {"none", "done"}
    /\ pc' = "exited"
    /\ exitCode' = 0
    /\ UNCHANGED <<cfg, httpd, httpsd, httpTask, httpsTask, supTask, sigTask,
                   sigChan, receivedSIGTERM, failures, err, returned, bound, req, resp>>

\* run() that returns 1 when a listener failed
RunWaitFailureStatus ==
    /\ pc = "waiting"
    /\ httpTask = "done"
    /\ httpsTask \in {"none", "done"}
    /\ supTask = "done"
    /\ pc' = "exited"
    /\ exitCode' = IF failures > 0 THEN 1 ELSE 0
    /\ UNCHANGED <<cfg, httpd, httpsd, httpTask, httpsTask, supTask, sigTask,
                   sigChan, receivedSIGTERM, failures, err, returned, bound, req, resp>>

\* wg.Wait and return 0, main.go:497-501
RunWait ==
    /\ pc = "waiting"
    /\ httpTask = "done"
    /\ httpsTask \in {"none", "done"}
    /\ supTask = "done"
    /\ pc' = "exited"
    /\ exitCode' = 0
    /\ UNCHANGED <<cfg, httpd, httpsd, httpTask, httpsTask, supTask, sigTask,
                   sigChan, receivedSIGTERM, failures, err, returned, bound, req, resp>>

(***************************************************************************)
(* The listener tasks, main.go:451-462 and 466-477.                        *)
(***************************************************************************)
\* httpd.ListenAndServe is called: a server already shut down returns
\* ErrServerClosed, else the address is bound or binding fails
HttpListen ==
    /\ Running
    /\ httpTask = "spawned"
    /\ \/ /\ httpd.state = "closed"
          /\ err' = "ErrServerClosed"
          /\ returned' = [returned EXCEPT !.http = "ErrServerClosed"]
          /\ httpTask' = "returned"
          /\ UNCHANGED <<httpd, bound>>
       \/ /\ httpd.state # "closed"
          /\ httpd' = [httpd EXCEPT !.state = "listening"]
          /\ bound' = bound \cup {"http"}
          /\ httpTask' = "serving"
          /\ UNCHANGED <<err, returned>>
       \/ /\ httpd.state # "closed"
          /\ err' = "other"
          /\ returned' = [returned EXCEPT !.http = "other"]
          /\ httpTask' = "returned"
          /\ UNCHANGED <<httpd, bound>>
    /\ UNCHANGED <<cfg, pc, exitCode, httpsd, httpsTask, supTask, sigTask,
                   sigChan, receivedSIGTERM, failures, req, resp>>

\* httpd.ListenAndServe returns from serving: after Shutdown with
\* ErrServerClosed, or with the error of a failed Accept
HttpServeReturn ==
    /\ Running
    /\ httpTask = "serving"
    /\ \/ /\ httpd.state = "closed"
          /\ err' = "ErrServerClosed"
          /\ returned' = [returned EXCEPT !.http = "ErrServerClosed"]
          /\ httpd' = httpd
       \/ /\ httpd.state = "listening"
          /\ err' = "other"
          /\ returned' = [returned EXCEPT !.http = "other"]
          /\ httpd' = [httpd EXCEPT !.state = "failed"]
    /\ httpTask' = "returned"
    /\ UNCHANGED <<cfg, pc, exitCode, httpsd, httpsTask, supTask, sigTask,
                   sigChan, receivedSIGTERM, failures, bound, req, resp>>

\* the plaintext listener task ending without counting its failure
HttpCheckErrNoCount ==
    /\ Running
    /\ httpTask = "returned"
    /\ httpTask' = "done"
    /\ UNCHANGED <<cfg, pc, exitCode, httpd, httpsd, httpsTask, supTask, sigTask,
                   sigChan, receivedSIGTERM, failures, err, returned, bound, req, resp>>

\* if err != http.ErrServerClosed { atomic.AddInt32(&failures, 1) }, main.go:457-461
HttpCheckErr ==
    /\ Running
    /\ httpTask = "returned"
    /\ failures' = IF err # "ErrServerClosed" THEN failures + 1 ELSE failures
    /\ httpTask' = "done"
    /\ UNCHANGED <<cfg, pc, exitCode, httpd, httpsd, httpsTask, supTask, sigTask,
                   sigChan, receivedSIGTERM, err, returned, bound, req, resp>>

\* httpsd.ListenAndServeTLS is called
HttpsListen ==
    /\ Running
    /\ httpsTask = "spawned"
    /\ \/ /\ httpsd.state = "closed"
          /\ err' = "ErrServerClosed"
          /\ returned' = [returned EXCEPT !.https = "ErrServerClosed"]
          /\ httpsTask' = "returned"
          /\ UNCHANGED <<httpsd, bound>>
       \/ /\ httpsd.state # "closed"
          /\ httpsd' = [httpsd EXCEPT !.state = "listening"]
          /\ bound' = bound \cup {"https"}
          /\ httpsTask' = "serving"
          /\ UNCHANGED <<err, returned>>
       \/ /\ httpsd.state # "closed"
          /\ err' = "other"
          /\ returned' = [returned EXCEPT !.https = "other"]
          /\ httpsTask' = "returned"
          /\ UNCHANGED <<httpsd, bound>>
    /\ UNCHANGED <<cfg, pc, exitCode, httpd, httpTask, supTask, sigTask,
                   sigChan, receivedSIGTERM, failures, req, resp>>

\* httpsd.ListenAndServeTLS returns from serving
HttpsServeReturn ==
    /\ Running
    /\ httpsTask = "serving"
    /\ \/ /\ httpsd.state = "closed"
          /\ err' = "ErrServerClosed"
          /\ returned' = [returned EXCEPT !.https = "ErrServerClosed"]
          /\ httpsd' = httpsd
       \/ /\ httpsd.state = "listening"
          /\ err' = "other"
          /\ returned' = [returned EXCEPT !.https = "other"]
          /\ httpsd' = [httpsd EXCEPT !.state = "failed"]
    /\ httpsTask' = "returned"
    /\ UNCHANGED <<cfg, pc, exitCode, httpd, httpTask, supTask, sigTask,
                   sigChan, receivedSIGTERM, failures, bound, req, resp>>

\* main.go:472-476
HttpsCheckErr ==
    /\ Running
    /\ httpsTask = "returned"
    /\ failures' = IF err # "ErrServerClosed" THEN failures + 1 ELSE failures
    /\ httpsTask' = "done"
    /\ UNCHANGED <<cfg, pc, exitCode, httpd, httpsd, httpTask, supTask, sigTask,
                   sigChan, receivedSIGTERM, err, returned, bound, req, resp>>

(***************************************************************************)
(* Signals, sigterm.go.                                                    *)
(***************************************************************************)
\* SIGINT or SIGTERM arrives: before signal.Notify it ends the process, after
\* it the signal is buffered in c unless c is full
Signal ==
    /\ Running
    /\ IF sigTask = "none"
       THEN pc' = "killed" /\ sigChan' = sigChan
       ELSE pc' = pc /\ sigChan' = 1
    /\ UNCHANGED <<cfg, exitCode, httpd, httpsd, httpTask, httpsTask, supTask, sigTask,
                   receivedSIGTERM, failures, err, returned, bound, req, resp>>

\* a signal task that goes on receiving after the first signal
SigTaskReceiveLoop ==
    /\ Running
    /\ sigTask \in {"waiting", "done"}
    /\ sigChan = 1
    /\ sigChan' = 0
    /\ receivedSIGTERM' = receivedSIGTERM + 1
    /\ sigTask' = "done"
    /\ UNCHANGED <<cfg, pc, exitCode, httpd, httpsd, httpTask, httpsTask, supTask,
                   failures, err, returned, bound, req, resp>>

\* <-c; atomic.AddInt32(&receivedSIGTERM, 1), sigterm.go:16-19
SigTaskReceive ==
    /\ Running
    /\ sigTask = "waiting"
    /\ sigChan = 1
    /\ sigChan' = 0
    /\ receivedSIGTERM' = receivedSIGTERM + 1
    /\ sigTask' = "done"
    /\ UNCHANGED <<cfg, pc, exitCode, httpd, httpsd, httpTask, httpsTask, supTask,
                   failures, err, returned, bound, req, resp>>

\* ReceivedSIGTERM that never sees the flag set
ReceivedSIGTERMStale == FALSE

\* ReceivedSIGTERM, sigterm.go:23-25
ReceivedSIGTERM == receivedSIGTERM > 0

(***************************************************************************)
(* The supervising task, main.go:483-495.                                  *)
(***************************************************************************)
\* a supervisor that does not wait for a signal or a failure
SupPollNoWait ==
    /\ Running
    /\ supTask = "polling"
    /\ supTask' = "shutdownHttp"
    /\ UNCHANGED <<cfg, pc, exitCode, httpd, httpsd, httpTask, httpsTask, sigTask,
                   sigChan, receivedSIGTERM, failures, err, returned, bound, req, resp>>

\* the loop ends once a signal was received or a listener failed
SupPoll ==
    /\ Running
    /\ supTask = "polling"
    /\ ~(~ReceivedSIGTERM /\ failures = 0)
    /\ supTask' = "shutdownHttp"
    /\ UNCHANGED <<cfg, pc, exitCode, httpd, httpsd, httpTask, httpsTask, sigTask,
                   sigChan, receivedSIGTERM, failures, err, returned, bound, req, resp>>

\* a supervisor that closes both listeners before it waits for either
SupShutdownBoth ==
    /\ Running
    /\ supTask = "shutdownHttp"
    /\ httpd' = [httpd EXCEPT !.state = "closed"]
    /\ httpsd' = IF httpsd = NoServer THEN httpsd ELSE [httpsd EXCEPT !.state = "closed"]
    /\ supTask' = "drainHttp"
    /\ UNCHANGED <<cfg, pc, exitCode, httpTask, httpsTask, sigTask,
                   sigChan, receivedSIGTERM, failures, err, returned, bound, req, resp>>

\* httpd.Shutdown(ctx) closes the listener ...
SupShutdownHttp ==
    /\ Running
    /\ supTask = "shutdownHttp"
    /\ httpd' = [httpd EXCEPT !.state = "closed"]
    /\ supTask' = "drainHttp"
    /\ UNCHANGED <<cfg, pc, exitCode, httpsd, httpTask, httpsTask, sigTask,
                   sigChan, receivedSIGTERM, failures, err, returned, bound, req, resp>>

\* ... and returns when the connections are idle or ctx is done
SupShutdownHttpReturn ==
    /\ Running
    /\ supTask = "drainHttp"
    /\ supTask' = IF httpsd # NoServer THEN "shutdownHttps" ELSE "done"
    /\ UNCHANGED <<cfg, pc, exitCode, httpd, httpsd, httpTask, httpsTask, sigTask,
                   sigChan, receivedSIGTERM, failures, err, returned, bound, req, resp>>

\* httpsd.Shutdown(ctx), main.go:492-494
SupShutdownHttps ==
    /\ Running
    /\ supTask = "shutdownHttps"
    /\ httpsd' = [httpsd EXCEPT !.state = "closed"]
    /\ supTask' = "drainHttps"
    /\ UNCHANGED <<cfg, pc, exitCode, httpd, httpTask, httpsTask, sigTask,
                   sigChan, receivedSIGTERM, failures, err, returned, bound, req, resp>>

SupShutdownHttpsReturn ==
    /\ Running
    /\ supTask = "drainHttps"
    /\ supTask' = "done"
    /\ UNCHANGED <<cfg, pc, exitCode, httpd, httpsd, httpTask, httpsTask, sigTask,
                   sigChan, receivedSIGTERM, failures, err, returned, bound, req, resp>>

(***************************************************************************)
(* Serving a request.                                                      *)
(***************************************************************************)
\* the plaintext listener accepts a request and runs its handler on it
ServeHttp(r, env) ==
    /\ Running
    /\ req = NoReq
    /\ httpd.state = "listening"
    /\ req' = r
    /\ resp' = [serverHandler(cfg, httpd, r, env) EXCEPT !.listener = "http"]
    /\ UNCHANGED <<cfg, pc, exitCode, httpd, httpsd, httpTask, httpsTask, supTask, sigTask,
                   sigChan, receivedSIGTERM, failures, err, returned, bound>>

\* the encrypted listener accepts a request and runs its handler on it
ServeHttps(r, env) ==
    /\ Running
    /\ req = NoReq
    /\ httpsd.state = "listening"
    /\ req' = r
    /\ resp' = [serverHandler(cfg, httpsd, r, env) EXCEPT !.listener = "https"]
    /\ UNCHANGED <<cfg, pc, exitCode, httpd, httpsd, httpTask, httpsTask, supTask, sigTask,
                   sigChan, receivedSIGTERM, failures, err, returned, bound>>

\* fileServer.ServeHTTP of route i is handed the path p
FileServe(i, p, env) ==
    /\ Running
    /\ req = NoReq
    /\ TargetKind(cfg.Routes[i]) = "file"
    /\ req' = Request("GET", <<"h">>, p, FALSE, "", "")
    /\ resp' = [fileServer(cfg.Routes[i].Target, [Path |-> p], env) EXCEPT !.route = i]
    /\ UNCHANGED <<cfg, pc, exitCode, httpd, httpsd, httpTask, httpsTask, supTask, sigTask,
                   sigChan, receivedSIGTERM, failures, err, returned, bound>>

\* the encrypted listener accepts a connection whose ClientHello asks for name
Handshake(name) ==
    /\ Running
    /\ req = NoReq
    /\ httpsd.state = "listening"
    /\ req' = Request("HELLO", <<name>>, <<>>, FALSE, "", "")
    /\ resp' = [serverCertificate(cfg, httpsd, name) EXCEPT !.listener = "https"]
    /\ UNCHANGED <<cfg, pc, exitCode, httpd, httpsd, httpTask, httpsTask, supTask, sigTask,
                   sigChan, receivedSIGTERM, failures, err, returned, bound>>

\* the observed request is over; the handlers keep nothing of it
Finish ==
    /\ req # NoReq
    /\ req' = NoReq
    /\ resp' = NoResp
    /\ UNCHANGED <<cfg, pc, exitCode, httpd, httpsd, httpTask, httpsTask, supTask, sigTask,
                   sigChan, receivedSIGTERM, failures, err, returned, bound>>

(***************************************************************************)
(* Specifications.                                                         *)
(***************************************************************************)
Init == \E c \in RunConfigs : Starting(c)

Next ==
    \/ RunLoad
    \/ RunValidate
    \/ RunSetupServers
    \/ RunGoHttp
    \/ RunGoHttps
    \/ RunRegisterSIGTERMHandler
    \/ RunGoSupervisor
    \/ RunWait
    \/ HttpListen
    \/ HttpServeReturn
    \/ HttpCheckErr
    \/ HttpsListen
    \/ HttpsServeReturn
    \/ HttpsCheckErr
    \/ Signal
    \/ SigTaskReceive
    \/ SupPoll
    \/ SupShutdownHttp
    \/ SupShutdownHttpReturn
    \/ SupShutdownHttps
    \/ SupShutdownHttpsReturn
    \/ \E r \in RunRequests, env \in Envs : ServeHttp(r, env)
    \/ \E r \in RunRequests, env \in Envs : ServeHttps(r, env)
    \/ Finish

\* run() from its start, over RunConfigs
Spec == Init /\ [][Next]_vars

InitAuth == \E c \in AuthConfigs : Serving(c)
NextAuth == (\E r \in AuthRequests, env \in Envs : ServeHttp(r, env)) \/ Finish

\* one guarded route, serving: every list of credentials against every Authorization header
SpecAuth == InitAuth /\ [][NextAuth]_vars

InitMux == \E c \in MuxConfigs : Serving(c)
NextMux == (\E r \in MuxRequests, env \in Envs : ServeHttp(r, env)) \/ Finish

\* public routes, serving: every route table against every request path
SpecMux == InitMux /\ [][NextMux]_vars

InitFile == \E c \in FileConfigs : Serving(c)
NextFile == (\E p \in FilePaths, env \in Envs : FileServe(1, p, env)) \/ Finish

\* the static file target on every path it can be handed
SpecFile == InitFile /\ [][NextFile]_vars

\* the steps of the goroutines of run()
MainStep ==
    \/ RunLoad
    \/ RunValidate
    \/ RunSetupServers
    \/ RunGoHttp
    \/ RunGoHttps
    \/ RunRegisterSIGTERMHandler
    \/ RunGoSupervisor
    \/ RunWait

SupStep ==
    \/ SupPoll
    \/ SupShutdownHttp
    \/ SupShutdownHttpReturn
    \/ SupShutdownHttps
    \/ SupShutdownHttpsReturn

InitLive == \E c \in LiveConfigs : Starting(c)

NextLive ==
    \/ MainStep
    \/ HttpListen
    \/ HttpServeReturn
    \/ HttpCheckErr
    \/ HttpsListen
    \/ HttpsServeReturn
    \/ HttpsCheckErr
    \/ Signal
    \/ SigTaskReceive
    \/ SupStep

\* the scheduler runs every goroutine that can take a step; a listener that
\* was shut down returns; a Shutdown call returns when its context is done at
\* the latest. Signals and failures of a serving listener may never happen.
Fairness ==
    /\ WF_vars(MainStep)
    /\ WF_vars(HttpListen)
    /\ WF_vars(HttpServeReturn /\ httpd.state = "closed")
    /\ WF_vars(HttpCheckErr)
    /\ WF_vars(HttpsListen)
    /\ WF_vars(HttpsServeReturn /\ httpsd.state = "closed")
    /\ WF_vars(HttpsCheckErr)
    /\ WF_vars(SigTaskReceive)
    /\ WF_vars(SupStep)

\* run() and its goroutines under a fair scheduler, without requests
SpecLive == InitLive /\ [][NextLive]_vars /\ Fairness

InitLog == \E c \in LogConfigs : Serving(c)
NextLog == (\E r \in LogRequests, env \in Envs \cup {DirEnv} : ServeHttp(r, env)) \/ Finish

\* one route, serving files, directories and upstream answers
SpecLog == InitLog /\ [][NextLog]_vars

\* configurations of plain mode over every list of up to MaxRoutes public
\* routes: prefixes empty, "/" and "/a/", targets a directory, a URL and neither
BuildConfigs ==
    {Config(AuthsOf(AllAuthIDs), "", rs, "", "", "", httpAddr, <<>>) :
        rs \in SeqsUpTo({Route(p, t, <<>>) : p \in {<<>>, <<"/">>, <<"/", "a", "/">>},
                                              t \in {DirTarget, UrlTarget, BadTarget}},
                        MaxRoutes),
        httpAddr \in {"", HttpAddr}}

\* run() from its start to the end of setupServers
InitBuild == \E c \in BuildConfigs : Starting(c)
NextBuild == RunLoad \/ RunValidate \/ RunSetupServers
SpecBuild == InitBuild /\ [][NextBuild]_vars

InitTLS == \E c \in TLSConfigs : Serving(c)
NextTLS ==
    \/ \E r \in RedirectRequests, env \in Envs : ServeHttp(r, env)
    \/ \E name \in ServerNames : Handshake(name)
    \/ Finish

\* a TLS mode, serving: every form of host on the plaintext listener and every
\* server name on the encrypted one
SpecTLS == InitTLS /\ [][NextTLS]_vars

(***************************************************************************)
(* Properties.                                                             *)
(***************************************************************************)
Observed == req # NoReq

\* the observed request was handed to the handler chain of a route
AtRoute == Observed /\ resp.route # 0 /\ resp.by # "StripPrefix"

ObservedRoute == cfg.Routes[resp.route]

\* a credential accepts a user name and password: the user names are equal and
\* the password has the digest of the hash, under the scheme of the hash prefix
CredentialAccepts(a, u, p) ==
    /\ a.Username = u
    /\ a.PasswordHash.wellformed
    /\ \/ /\ a.PasswordHash.prefix = Apr1Prefix
          /\ a.PasswordHash.digest = apr1Md5(p, a.PasswordHash.salt)
       \/ /\ a.PasswordHash.prefix = BcryptPrefix
          /\ a.PasswordHash.digest = bcryptDigest(p, a.PasswordHash.salt)

SomeCredentialAccepts(auths, u, p) ==
    \E j \in 1..Len(auths) : CredentialAccepts(auths[j], u, p)

Challenged == resp.status = 401 /\ resp.wwwAuth /\ ~resp.dispatched /\ resp.logOut = <<>>

C4_VerifyOneCredential ==
    (AtRoute /\ req.HasAuth /\ needsAuth(cfg, ObservedRoute)) =>
        LET auths == RouteAuths(cfg, ObservedRoute)
        IN  /\ (Len(auths) = 1) =>
                  (resp.dispatched <=> CredentialAccepts(auths[1], req.Username, req.Password))
            /\ \A k \in 1..Len(resp.hashOps) :
                  LET o == resp.hashOps[k]
                      hash == auths[o.cred].PasswordHash
                  IN  /\ auths[o.cred].Username = req.Username
                      /\ o.op = "md5" => hash.prefix = Apr1Prefix
                      /\ o.op = "bcrypt" => hash.prefix # Apr1Prefix
                      /\ o.op = "parse-error" => hash.prefix = Apr1Prefix

\* C4: an apr1 credential rejected a wrong password after the MD5 comparison alone
C4_Witness ==
    /\ AtRoute
    /\ Len(ObservedRoute.AuthIDs) = 1
    /\ req.HasAuth
    /\ resp.hashOps = <<HashOp("md5", 1)>>
    /\ Challenged

\* C5: a request to a route that lists a credential with an empty user name is
\* granted whatever it submits, and no hash is compared for it
C5_EmptyUsernameGrants ==
    (AtRoute /\ \E j \in 1..Len(ObservedRoute.AuthIDs) :
                    cfg.Auths[ObservedRoute.AuthIDs[j]].Username = "") =>
        (resp.dispatched /\ resp.hashOps = <<>>)

PublicRoute(c, route) ==
    \A j \in 1..Len(route.AuthIDs) : c.Auths[route.AuthIDs[j]].Username = ""

\* C6: a request that the route table hands to a route that lists no auth ID,
\* or only credentials with an empty user name, reaches the dispatch target and
\* is not challenged, with or without an Authorization header
C6_PublicRouteUnchallenged ==
    \A i \in 1..Len(cfg.Routes) :
        (Observed /\ resp.route = i /\ PublicRoute(cfg, cfg.Routes[i])) =>
            /\ resp.dispatched
            /\ resp.by \in {"fileServer", "reverseProxy"}
            /\ ~resp.wwwAuth
            /\ resp.status # 401
            /\ resp.logErr = <<>>
            /\ resp.hashOps = <<>>

\* C6: a request with credentials nobody configured reached the target of a
\* route that lists only the allow-all credential
C6_Witness ==
    /\ AtRoute
    /\ ObservedRoute.AuthIDs = <<"everybody">>
    /\ req.HasAuth
    /\ req.Username = "c"
    /\ resp.dispatched

\* verification of one credential as the specification states it
Verifies(a, u, p) == a.Username = "" \/ CredentialAccepts(a, u, p)

\* C7: on a route that lists several auth IDs a request is granted iff at least
\* one listed credential verifies the submitted user name and password
C7_AnyCredentialGrants ==
    (AtRoute /\ req.HasAuth /\ Len(ObservedRoute.AuthIDs) >= 2) =>
        (resp.dispatched <=>
            \E j \in 1..Len(ObservedRoute.AuthIDs) :
                Verifies(cfg.Auths[ObservedRoute.AuthIDs[j]], req.Username, req.Password))

\* name is the directory root or a path beneath it
Beneath(name, root) ==
    \/ name = root
    \/ HasPrefix(name, IF HasSuffix(root, <<"/">>) THEN root ELSE root \o <<"/">>)

\* C2: whatever path the static file target is handed, the path it opens is
\* its configured root or lies beneath it
C2_OpenedBeneathRoot ==
    (Observed /\ resp.by = "fileServer") =>
        /\ Beneath(resp.opened, Clean(ObservedRoute.Target))
        /\ ~ContainsDotDot(resp.opened)

\* C2: a path that climbs above the root with ".." was handed to the file
\* target of a root two directories deep, and the root itself was opened
C2_Witness ==
    /\ Observed
    /\ resp.by = "fileServer"
    /\ ObservedRoute.Target = <<"/", "d", "/", "a">>
    /\ HasPrefix(req.Path, <<".", ".", "/", ".", ".">>)
    /\ resp.opened = <<"/", "d", "/", "a">>

TLSActive(c) == c.SslCertPath # "" \/ c.LetsencryptDir # ""

WithLeadingSlash(p) == IF HasPrefix(p, <<"/">>) THEN p ELSE <<"/">> \o p

\* P is the longest configured prefix the path starts with
LongestPrefix(i) ==
    /\ HasPrefix(req.Path, cfg.Routes[i].Prefix)
    /\ \A k \in 1..Len(cfg.Routes) :
          HasPrefix(req.Path, cfg.Routes[k].Prefix) =>
              Len(cfg.Routes[k].Prefix) <= Len(cfg.Routes[i].Prefix)

\* C8: a request whose canonical path is a configured prefix P (the longest
\* that fits, with or without a trailing separator) followed by a suffix S that
\* starts a new segment is dispatched to the target of that route with the path
\* S, a leading separator added when missing, and stripping P from S again
\* changes nothing
C8_PrefixStripped ==
    \A i \in 1..Len(cfg.Routes) :
        LET P == cfg.Routes[i].Prefix
            S == SubSeq(req.Path, Len(P) + 1, Len(req.Path))
        IN  (/\ Observed
             /\ LongestPrefix(i)
             /\ cleanPath(req.Path) = req.Path
             /\ (HasSuffix(P, <<"/">>) \/ S = <<>> \/ HasPrefix(S, <<"/">>))) =>
                /\ resp.route = i
                /\ resp.dispatched
                /\ WithLeadingSlash(resp.targetPath) = WithLeadingSlash(S)
                /\ TrimPrefix(S, P) = S

NoPrefixMatches ==
    \A i \in 1..Len(cfg.Routes) : ~HasPrefix(req.Path, cfg.Routes[i].Prefix)

DefaultAnswer ==
    /\ resp.by = "default"
    /\ resp.status = 404
    /\ ~resp.dispatched
    /\ resp.logOut = <<>>
    /\ Len(resp.logErr) = 1
    /\ resp.logErr[1].Error # ""
    /\ resp.logErr[1].StatusCode = 404

SlashOmitted ==
    \E i \in 1..Len(cfg.Routes) : cfg.Routes[i].Prefix = req.Path \o <<"/">>

AbsoluteURL(t) ==
    /\ SchemeEnd(t) > 0
    /\ HasPrefix(SubSeq(t, SchemeEnd(t) + 1, Len(t)), <<"/", "/">>)

\* the configuration errors of the specification
ConfigError(c) ==
    \/ c.HttpAddress = ""
    \/ (c.SslCertPath = "") # (c.SslKeyPath = "")
    \/ c.LetsencryptDir # "" /\ c.SslCertPath # ""
    \/ c.LetsencryptDir # "" /\ c.Domain = ""
    \/ TLSActive(c) /\ c.HttpsAddress = <<>>
    \/ DanglingAuth(c)
    \/ \E i \in 1..Len(c.Routes) :
          ~HasPrefix(c.Routes[i].Target, <<"/">>) /\ ~AbsoluteURL(c.Routes[i].Target)

\* C10: for a configuration with an error, run returns nonzero, no listener
\* task is started and no address is bound
C10_ConfigErrorFatal ==
    ConfigError(cfg) =>
        /\ httpTask = "none" /\ httpsTask = "none"
        /\ bound = {}
        /\ pc = "exited" => exitCode # 0

(***************************************************************************)
(* Validate and the bind address of the encrypted listener.                *)
(***************************************************************************)
\* a TLS mode as the configuration states it: certificate and key both set,
\* or a directory for automatic certificates
TLSConfigured(c) ==
    (c.SslCertPath # "" /\ c.SslKeyPath # "") \/ c.LetsencryptDir # ""

\* C11: Validate rejects every configuration with a TLS mode active and an
\* empty HTTPS bind address, and no encrypted listener is ever constructed
\* with an empty bind address
C11_TLSNeedsHttpsAddress ==
    /\ (TLSConfigured(cfg) /\ cfg.HttpsAddress = <<>>) => Validate(cfg) # ""
    /\ httpsd # NoServer => httpsd.Addr # <<>>

(***************************************************************************)
(* The redirect to the encrypted listener.                                 *)
(***************************************************************************)
\* a Host header without its port: a bracketed address up to its closing
\* bracket, any other host up to its first colon
Hostname(host) ==
    IF host # <<>> /\ host[1] = "[" /\ \E i \in 1..Len(host) : host[i] = "]"
    THEN SubSeq(host, 1, CHOOSE i \in 1..Len(host) : host[i] = "]")
    ELSE SplitColon(host)[1]

\* the location the request is to be redirected to
RedirectLocation(c, r) ==
    IF HasPrefix(c.HttpsAddress, <<":">>)
    THEN <<HttpsScheme>> \o Hostname(r.Host) \o c.HttpsAddress \o r.Path
    ELSE <<HttpsScheme>> \o c.HttpsAddress \o r.Path

\* a request the redirect responder is handed: its path is canonical and it is
\* not a certificate challenge of the automatic mode
ForRedirectResponder ==
    /\ Observed
    /\ req.Method = "GET"
    /\ resp.listener = "http"
    /\ TLSActive(cfg)
    /\ cleanPath(req.Path) = req.Path
    /\ ~(cfg.LetsencryptDir # "" /\ HasPrefix(req.Path, AcmePrefix))

\* C12: with a TLS mode active, a request on the plaintext listener (canonical
\* path, no certificate challenge) is answered 301 with the location https://,
\* the request's host without its port and the HTTPS address when that address
\* starts with a colon, else https:// and the HTTPS address, followed by the
\* request URI, for every form of host; the logged redirection_url is the
\* location sent
C12_RedirectLocation ==
    ForRedirectResponder =>
        /\ resp.status = 301
        /\ resp.location = RedirectLocation(cfg, req)
        /\ Len(resp.logOut) = 1
        /\ resp.logOut[1].RedirectionURL = resp.location

(***************************************************************************)
(* The host policy of the automatic mode.                                  *)
(***************************************************************************)
\* a handshake on the encrypted listener in the automatic mode
AutomaticHandshake ==
    Observed /\ req.Method = "HELLO" /\ resp.listener = "https" /\ cfg.LetsencryptDir # ""

Delivered == sigChan = 1 \/ receivedSIGTERM > 0

\* no listener accepts connections, every task is over and run() has returned
Stopped ==
    /\ pc = "exited"
    /\ httpTask = "done"
    /\ httpsTask \in {"none", "done"}
    /\ supTask = "done"
    /\ httpd.state # "listening"
    /\ httpsd.state # "listening"

\* C14: once a termination signal was delivered, whatever the tasks were doing,
\* eventually both listeners have stopped accepting connections, all tasks are
\* over and the process has exited
C14_SignalStops == Delivered ~> Stopped

\* C14: the process exited after a signal that was delivered before either
\* listener had bound its address
C14_Witness ==
    /\ Stopped
    /\ receivedSIGTERM > 0
    /\ failures = 0
    /\ bound = {}
    /\ httpsTask = "done"

\* a listener's ListenAndServe call returned with an error other than
\* ErrServerClosed
ListenerFailed == returned.http = "other" \/ returned.https = "other"

\* C15: once a listener's start or serve call has failed, without any
\* termination signal, eventually the supervisor has shut down both listeners,
\* both listener tasks are over and the process has exited; the only other
\* end is a signal that ends the process before its handler is registered
C15_FailureStops == ListenerFailed ~> (Stopped \/ pc = "killed")

\* C15: the process exited without any signal after the plaintext listener
\* failed and the encrypted one was shut down
C15_Witness ==
    /\ Stopped
    /\ receivedSIGTERM = 0
    /\ sigChan = 0
    /\ returned.http = "other"
    /\ returned.https = "ErrServerClosed"
    /\ "https" \in bound

(***************************************************************************)
(* The return of run().                                                    *)
(***************************************************************************)
\* C16: run has returned from wg.Wait only when the plaintext listener task,
\* the encrypted listener task if there is one, and the supervising task are
\* over, so never while a Shutdown call of the supervisor is in progress
C16_ReturnsAfterAllTasks ==
    (pc = "exited" /\ httpTask # "none") =>
        /\ httpTask = "done"
        /\ httpsd # NoServer => httpsTask = "done"
        /\ supTask = "done"
        /\ supTask \notin {"shutdownHttp", "drainHttp", "shutdownHttps", "drainHttps"}

\* C16: run returned after both listener tasks and the supervisor were over
C16_Witness ==
    /\ pc = "exited"
    /\ httpTask = "done"
    /\ httpsTask = "done"
    /\ supTask = "done"

\* C17: once the listener tasks were started run returns 0, after a signal as
\* well as after failures of one or both listeners; a nonzero status is
\* returned only when no listener task was ever started
C17_ExitStatus ==
    /\ (pc = "exited" /\ httpTask # "none") => exitCode = 0
    /\ (pc \in {"exited", "panicked"} /\ exitCode # 0) =>
          (httpTask = "none" /\ httpsTask = "none" /\ bound = {})
    /\ (pc = "exited" /\ httpTask = "none") => exitCode = 1

\* C17: run returned 0 although both listeners had failed
C17_Witness ==
    /\ pc = "exited"
    /\ exitCode = 0
    /\ returned.http = "other"
    /\ returned.https = "other"
    /\ failures > 0

(***************************************************************************)
(* The failure counter.                                                    *)
(***************************************************************************)
\* 1 for a listener task that is over and whose own ListenAndServe call
\* returned an error other than ErrServerClosed, else 0
OwnFailure(task, ret) == IF task = "done" /\ ret = "other" THEN 1 ELSE 0

\* C18: the failure counter counts exactly the listener tasks that are over
\* and whose own start or serve call returned for a reason other than a
\* requested shutdown: a listener that was shut down never increments it, a
\* listener that failed always does, however the two tasks interleave
C18_CountsOwnFailures ==
    failures = OwnFailure(httpTask, returned.http) + OwnFailure(httpsTask, returned.https)

(***************************************************************************)
(* The order of the two Shutdown calls.                                    *)
(***************************************************************************)
\* the supervisor is inside httpd.Shutdown, after the listener was closed
PlainDraining == supTask = "drainHttp"

\* the encrypted listener has been asked to shut down
EncryptedAsked == httpsd.state = "closed"

Mode(plain) ==
    IF plain.Handler = "router" THEN "Plain"
    ELSE IF plain.Handler = "redirect" THEN "Static"
    ELSE IF plain.Handler = "acme" THEN "Automatic"
    ELSE "none"

\* run() is past the validation of its configuration
Validated == pc \in {"validated", "servers", "goHttps", "register", "goSupervisor", "waiting"}

\* run() has its servers
ServersSet == pc \in {"servers", "goHttps", "register", "goSupervisor", "waiting"}

\* C20: for a configuration Validate accepts, setupServers selects Plain iff
\* cert path and certificate directory are empty, Static iff cert and key paths
\* are set and the directory is empty, Automatic iff directory and domain are
\* set and cert and key paths are empty; one of the three always applies, the
\* errors "unhandled execution path" and "expected empty SSL cert/key path"
\* never occur, and the encrypted listener exists iff the mode is not Plain
C20_OneMode ==
    /\ Validated =>
          /\ Validate(cfg) = ""
          /\ setupServers(cfg).err \in {"", "failed to set up the router"}
    /\ ServersSet =>
          /\ Mode(httpd) \in {"Plain", "Static", "Automatic"}
          /\ (Mode(httpd) = "Plain") = (cfg.SslCertPath = "" /\ cfg.LetsencryptDir = "")
          /\ (Mode(httpd) = "Static") =
                (cfg.SslCertPath # "" /\ cfg.SslKeyPath # "" /\ cfg.LetsencryptDir = "")
          /\ (Mode(httpd) = "Automatic") =
                (/\ cfg.LetsencryptDir # "" /\ cfg.Domain # ""
                 /\ cfg.SslCertPath = "" /\ cfg.SslKeyPath = "")
          /\ (httpsd # NoServer) = (Mode(httpd) # "Plain")
          /\ (httpd = setupServers(cfg).httpd /\ httpsd = setupServers(cfg).httpsd)
                \/ pc \in {"goHttps", "register", "goSupervisor", "waiting"}

\* C20: the servers of the automatic mode were set up
C20_Witness ==
    /\ pc = "servers"
    /\ Mode(httpd) = "Automatic"
    /\ httpsd.TLSConfig = "GetCertificate"

(***************************************************************************)
(* The records of the logging decorator.                                   *)
(***************************************************************************)
\* the observed request reached the logging decorator of a route: its
\* dispatch target ran
Logged == Observed /\ resp.route > 0 /\ resp.dispatched

\* C21: for a request that reached a route's logging decorator exactly one
\* record is written, its status_code is the status the dispatch target sent to
\* the client, and the response is the one the target wrote
C21_OneRecordWithSentStatus ==
    Logged =>
        /\ Len(resp.logOut) = 1
        /\ resp.logErr = <<>>
        /\ resp.logOut[1].StatusCode = resp.status
        /\ resp.by \in {"fileServer", "reverseProxy"}
        /\ resp.status # 0

\* the route the observed request was dispatched to
LoggedRoute == cfg.Routes[resp.route]

\* C22 as stated: the record of a dispatched request carries the URL of the
\* request as the client sent it, prefix included, the route's prefix and
\* target, and an empty error field
C22_LogsFullURL ==
    Logged =>
        /\ Len(resp.logOut) = 1
        /\ resp.logOut[1].URL = req.Path
        /\ resp.logOut[1].Prefix = LoggedRoute.Prefix
        /\ resp.logOut[1].Target = LoggedRoute.Target
        /\ resp.logOut[1].Error = ""

\* C22 amended: the record of a dispatched request carries the URL of the
\* request with the route's prefix stripped (for a directory target with a
\* leading separator added when the rest lacks one), the route's prefix and
\* target, and an empty error field
C22_LogsStrippedURL ==
    Logged =>
        /\ Len(resp.logOut) = 1
        /\ resp.logOut[1].URL =
              IF TargetKind(LoggedRoute) = "file"
              THEN WithLeadingSlash(TrimPrefix(req.Path, LoggedRoute.Prefix))
              ELSE TrimPrefix(req.Path, LoggedRoute.Prefix)
        /\ resp.logOut[1].Prefix = LoggedRoute.Prefix
        /\ resp.logOut[1].Target = LoggedRoute.Target
        /\ resp.logOut[1].Error = ""

\* C22: a request under the prefix /a/ was forwarded upstream and its record
\* carries the URL without the prefix
C22_Witness ==
    /\ Logged
    /\ resp.by = "reverseProxy"
    /\ LoggedRoute.Prefix = <<"/", "a", "/">>
    /\ req.Path = <<"/", "a", "/", "a">>
    /\ resp.logOut[1].URL = <<"a">>

\* a listed credential of the observed route has the submitted user name and a
\* hash that AcceptMd5 fails to parse
ParseFails ==
    /\ AtRoute
    /\ req.HasAuth
    /\ needsAuth(cfg, ObservedRoute)
    /\ \E j \in 1..Len(ObservedRoute.AuthIDs) :
          /\ RouteAuths(cfg, ObservedRoute)[j].Username = req.Username
          /\ AcceptMd5(RouteAuths(cfg, ObservedRoute)[j].PasswordHash).err

\* C23: a credential whose hash fails to parse counts as a failed verification
\* for itself alone: the answer is no server error, the request is granted iff
\* another listed credential verifies it, and refused with 401 otherwise
C23_ParseFailureIsLocal ==
    ParseFails =>
        LET auths == RouteAuths(cfg, ObservedRoute)
        IN  /\ resp.status # 500
            /\ resp.dispatched <=>
                  \E k \in 1..Len(auths) : Verifies(auths[k], req.Username, req.Password)
            /\ ~resp.dispatched => Challenged

(***************************************************************************)
(* Building the route table.                                               *)
(***************************************************************************)
\* setupServers has returned, or has ended the process
Built == pc \notin {"start", "loaded", "validated"}

\* every route of c has a target the switch of setupRouter knows and a prefix
\* that is not empty and not the prefix of another route
Registrable(c) ==
    \A i \in 1..Len(c.Routes) :
        /\ TargetKind(c.Routes[i]) # "error"
        /\ c.Routes[i].Prefix # <<>>
        /\ \A j \in 1..Len(c.Routes) : c.Routes[j].Prefix = c.Routes[i].Prefix => j = i

RootConfigured(c) == \E i \in 1..Len(c.Routes) : c.Routes[i].Prefix = <<"/">>

\* the entries of the route table built for c that are registered for "/"
RootEntries(c) ==
    {k \in 1..Len(setupRouter(c).mux) : setupRouter(c).mux[k].pattern = <<"/">>}

C27_RouterOrError ==
    (Built /\ Validate(cfg) = "") =>
        \/ /\ pc = "servers"
           /\ \A i \in 1..Len(cfg.Routes) :
                 \E k \in 1..Len(setupRouter(cfg).mux) :
                     /\ setupRouter(cfg).mux[k].pattern = cfg.Routes[i].Prefix
                     /\ setupRouter(cfg).mux[k].kind = "route"
                     /\ setupRouter(cfg).mux[k].route = i
        \/ pc = "exited" /\ exitCode = 1

(***************************************************************************)
(* The termination flag, the failure counter and the supervisor.           *)
(***************************************************************************)
\* the listener tasks run() has started, main.go:450-478
TasksStarted ==
    (IF httpTask # "none" THEN 1 ELSE 0) + (IF httpsTask # "none" THEN 1 ELSE 0)

\* C25: the termination flag and the failure counter start at zero and never
\* decrease, the failure counter never exceeds the number of listener tasks
\* started, and once the flag is set a further signal changes nothing but the
\* buffer of the signal channel
C25_FlagAndCounterMonotonic ==
    /\ receivedSIGTERM = 0 /\ failures = 0
    /\ [][/\ receivedSIGTERM' >= receivedSIGTERM
          /\ failures' >= failures
          /\ failures' <= TasksStarted'
          /\ receivedSIGTERM > 0 =>
                /\ receivedSIGTERM' = receivedSIGTERM
                /\ sigChan' # sigChan =>
                      UNCHANGED <<cfg, pc, exitCode, httpd, httpsd, httpTask, httpsTask,
                                  supTask, sigTask, failures, err, returned, bound, req, resp>>]_vars

\* C25: both listeners failed and were counted, the first signal set the flag
\* and a second signal is in the channel
C25_Witness ==
    /\ receivedSIGTERM = 1
    /\ sigChan = 1
    /\ failures = 2
    /\ TasksStarted = 2

\* C26: a listener is closed only by the step of the supervisor that calls its
\* Shutdown, which happens once per listener and only with the flag set or a
\* failure counted; while the flag is unset and no failure is counted no
\* listener is closed and run does not return from serving
C26_ShutdownOnlyBySupervisor ==
    /\ [][/\ (httpd'.state = "closed" /\ httpd.state # "closed") =>
                (supTask = "shutdownHttp" /\ (receivedSIGTERM > 0 \/ failures > 0))
          /\ (httpsd'.state = "closed" /\ httpsd.state # "closed") =>
                (supTask = "shutdownHttps" /\ (receivedSIGTERM > 0 \/ failures > 0))
          /\ (supTask = "shutdownHttp" /\ supTask' # supTask) =>
                (httpd.state # "closed" /\ httpd'.state = "closed")
          /\ (supTask = "shutdownHttps" /\ supTask' # supTask) =>
                (httpsd.state # "closed" /\ httpsd'.state = "closed")
          /\ supTask' = "shutdownHttp" => supTask \in {"polling", "shutdownHttp"}
          /\ supTask' = "shutdownHttps" => supTask \in {"drainHttp", "shutdownHttps"}]_vars
    /\ []((receivedSIGTERM = 0 /\ failures = 0) =>
             /\ httpd.state # "closed"
             /\ httpsd.state # "closed"
             /\ supTask \in {"none", "polling"}
             /\ ~(pc = "exited" /\ exitCode = 0))

\* C26: after a signal the supervisor shut down both listeners, one after the
\* other, and run returned
C26_Witness ==
    /\ pc = "exited"
    /\ exitCode = 0
    /\ receivedSIGTERM = 1
    /\ failures = 0
    /\ httpd.state = "closed"
    /\ httpsd.state = "closed"

====
